---- MODULE Spec2Model ----
(***************************************************************************)
(* A model of grl.generative_models.normalizing_flow.flow.FlowModel        *)
(* (sample, sample_forward_process) and of                                 *)
(* grl.datasets.minari_dataset.MinariDataset.return_range.                 *)
(*                                                                         *)
(* A tensor is a record [shape, data]: data is the row-major sequence of   *)
(* its elements.  An element of a trajectory is a tuple                    *)
(*   <<t, f, src, j>>                                                      *)
(* t the time index, f the flat batch row handed to the integrator, src   *)
(* the row of x_0 the flat row was copied from (Noise for a Gaussian       *)
(* draw) and j the position inside the state.  All indices inside          *)
(* elements are 0-based, as in the source.                                 *)
(***************************************************************************)
EXTENDS Integers, Sequences, FiniteSets, TLC

\* ------------------------------------------------------------------ bounds
MaxT == 2
MaxB == 2
MaxN == 2
MaxD == 2
MaxSteps == 4
MaxEpisodeSteps == 2

Noise == -1

\* --------------------------------------------------------------- variables
VARIABLES
    x_size,            \* self.x_size
    self_solver,       \* self.solver, "none" when the attribute was never set
    pc,                \* position of the call
    call,              \* the arguments of the call in progress
    extra_batch_size,  \* local: 1-D tensor of the extra batch sizes
    data_batch_size,   \* local
    solver,            \* local: class of the solver in use
    x,                 \* local: initial state batch
    condition,         \* local: condition after repeat_interleave
    data,              \* local: integrate's result, then the reshaped result
    ret,               \* value returned to the caller
    err,               \* exception that ended the call
    log,               \* calls made to the external collaborators
    rr                 \* frame of return_range

vars == <<x_size, self_solver, pc, call, extra_batch_size, data_batch_size,
          solver, x, condition, data, ret, err, log, rr>>

flowVars == <<x_size, self_solver, pc, call, extra_batch_size, data_batch_size,
              solver, x, condition, data, ret, err, log>>

\* ----------------------------------------------------------------- helpers
RECURSIVE Prod(_)
Prod(s) == IF s = <<>> THEN 1 ELSE Head(s) * Prod(Tail(s))

RECURSIVE Sum(_)
Sum(s) == IF s = <<>> THEN 0 ELSE Head(s) + Sum(Tail(s))

RemoveAt(s, i) == SubSeq(s, 1, i - 1) \o SubSeq(s, i + 1, Len(s))


\* ------------------------------------------------------ values and inputs
NoData == [kind |-> "none", fields |-> <<>>]
NoX == [kind |-> "none", tails |-> <<>>, rows |-> <<>>]

IntSize(n) == [kind |-> "int", n |-> n, dims |-> <<>>]
TupleSize(d) == [kind |-> "tuple", n |-> 0, dims |-> d]
DictSize == [kind |-> "dict", n |-> 0, dims |-> <<>>]

\* the fields of a mapping x_size, in key order
TreeKeys == <<"a", "b">>
DictXSize == <<IntSize(1), TupleSize(<<1, MaxD>>)>>

XSizes == {IntSize(1), IntSize(MaxD), TupleSize(<<MaxD>>), TupleSize(<<1, MaxD>>), DictSize}

SolverClasses == {"ODESolver", "DictTensorODESolver", "SDESolver"}

BatchSizes ==
    {[kind |-> "None", v |-> <<>>], [kind |-> "invalid", v |-> <<>>]}
    \cup {[kind |-> "int", v |-> <<b>>] : b \in 1..MaxB}
    \cup {[kind |-> "seq", v |-> <<b>>] : b \in 1..MaxB}
    \cup {[kind |-> "seq", v |-> <<b1, b2>>] : b1, b2 \in 1..MaxB}

X0Shapes == {<<1>>, <<MaxD>>, <<1, MaxD>>}

\* the per-field shapes of a structured x_0 that has the fields of DictXSize
TreeX0Fields == <<<<1>>, <<1, MaxD>>>>

\* x_0: absent, a flat tensor of n rows of shape tail (fields empty), or a tree of
\* n rows with one shape per field
X0s ==
    {[present |-> FALSE, n |-> 0, tail |-> <<>>, fields |-> <<>>]}
    \cup {[present |-> TRUE, n |-> n, tail |-> t, fields |-> <<>>] :
              n \in 1..MaxN, t \in X0Shapes}
    \cup {[present |-> TRUE, n |-> n, tail |-> <<>>, fields |-> TreeX0Fields] :
              n \in 1..MaxN}

Conditions ==
    {[present |-> FALSE, n |-> 0]} \cup {[present |-> TRUE, n |-> n] : n \in 1..MaxN}

Calls ==
    [entry : {"sample", "sample_forward_process"},
     t_span : 1..MaxT,
     batch_size : BatchSizes,
     x_0 : X0s,
     condition : Conditions,
     with_grad : BOOLEAN,
     solver_config : SolverClasses \cup {"None"}]

NoCall ==
    [entry |-> "none", t_span |-> 0, batch_size |-> [kind |-> "None", v |-> <<>>],
     x_0 |-> [present |-> FALSE, n |-> 0, tail |-> <<>>, fields |-> <<>>],
     condition |-> [present |-> FALSE, n |-> 0],
     with_grad |-> FALSE, solver_config |-> "None"]

NoLog == [get_solver |-> 0, gaussian |-> <<>>, integrate |-> <<>>]

\* ------------------------------------------------------------ torch models
\* torch.Size([x_size]) / torch.Size(x_size)
TorchSize(xs) == IF xs.kind = "int" THEN <<xs.n>> ELSE xs.dims

\* torch.tensor(v).shape for a flat sequence v
TensorShape(v) == <<Len(v)>>

\* rows.repeat(k, 1) in place of repeat_interleave: row f is a copy of row f mod n
RepeatTiled(rows, k) ==
    [f \in 1..(Len(rows) * k) |-> rows[((f - 1) % Len(rows)) + 1]]

\* torch.repeat_interleave(rows, k, dim=0): 0-based row f is a copy of row f div k
RepeatInterleave(rows, k) ==
    [f \in 1..(Len(rows) * k) |-> rows[((f - 1) \div k) + 1]]

\* the rows of x_0, each tagged with its own 0-based index
RowsOf(n) == [i \in 1..n |-> i - 1]

\* gaussian_generator(batch_size=n): n rows of noise
GaussianRows(n) == [i \in 1..n |-> Noise]

\* tensor.reshape(-1, *dims)
ReshapeOk(t, dims) == Prod(dims) > 0 /\ Len(t.data) % Prod(dims) = 0
Reshape(t, dims) == [shape |-> <<Len(t.data) \div Prod(dims)>> \o dims, data |-> t.data]

\* tensor.squeeze() in place of squeeze(dim): every axis of size 1 goes
SqueezeEvery(t, dim) ==
    [shape |-> SelectSeq(t.shape, LAMBDA n : n # 1), data |-> t.data]

\* tensor.squeeze(dim), dim 0-based
SqueezeOk(t, dim) == dim < Len(t.shape)
Squeeze(t, dim) ==
    IF t.shape[dim + 1] = 1 THEN [shape |-> RemoveAt(t.shape, dim + 1), data |-> t.data] ELSE t

\* tensor[i] with Python's negative indices, i counted from 0
IndexOk(t, i) == Len(t.shape) > 0 /\ i < t.shape[1] /\ 0 - i <= t.shape[1]
Index(t, i) ==
    LET pos == IF i < 0 THEN t.shape[1] + i ELSE i
        blk == Prod(Tail(t.shape))
    IN  [shape |-> Tail(t.shape), data |-> SubSeq(t.data, pos * blk + 1, (pos + 1) * blk)]

\* the trajectory solver.integrate returns for the flat batch rows: T snapshots,
\* each row evolved on its own
Trajectory(T, rows, tail) ==
    LET P == Prod(tail)
        R == Len(rows)
    IN  [shape |-> <<T, R>> \o tail,
         data |-> [e \in 1..(T * R * P) |->
                     LET z == e - 1
                         f == (z % (R * P)) \div P
                     IN  <<z \div (R * P), f, rows[f + 1], z % P>>]]

\* ------------------------------------------------------------ FlowModel
NoRR == [pc |-> "off", rewards |-> <<>>, terminals |-> <<>>, max_episode_steps |-> 0,
         i |-> 0, ep_ret |-> 0, ep_len |-> 0, returns |-> <<>>, lengths |-> <<>>,
         closed |-> <<>>, result |-> <<>>, err |-> ""]

\* FlowModel.__init__: x_size from the config, self.solver only when the config has one
Init ==
    /\ x_size \in XSizes
    /\ self_solver \in SolverClasses \cup {"none"}
    /\ pc = "idle"
    /\ call = NoCall
    /\ extra_batch_size = <<>>
    /\ data_batch_size = 0
    /\ solver = "none"
    /\ x = NoX
    /\ condition = <<>>
    /\ data = NoData
    /\ ret = NoData
    /\ err = ""
    /\ log = NoLog
    /\ rr = NoRR

Raise(e) == pc' = "error" /\ err' = e

\* sample_forward_process called directly
sample_forward_process ==
    /\ pc = "idle"
    /\ \E c \in Calls :
         /\ c.entry = "sample_forward_process"
         \* a structured x_0 is passed only to a model whose state is structured
         /\ c.x_0.fields # <<>> => x_size.kind = "dict"
         /\ call' = c
    /\ pc' = "batch_size"
    /\ UNCHANGED <<x_size, self_solver, extra_batch_size, data_batch_size, solver, x,
                   condition, data, ret, err, log, rr>>

\* sample: forwards its six arguments to sample_forward_process
sample ==
    /\ pc = "idle"
    /\ \E c \in Calls :
         /\ c.entry = "sample"
         /\ c.x_0.fields # <<>> => x_size.kind = "dict"
         /\ call' = c
    /\ pc' = "batch_size"
    /\ UNCHANGED <<x_size, self_solver, extra_batch_size, data_batch_size, solver, x,
                   condition, data, ret, err, log, rr>>

\* lines 110-122
NormalizeBatchSize ==
    /\ pc = "batch_size"
    /\ IF call.batch_size.kind = "None"
       THEN extra_batch_size' = <<1>> /\ pc' = "data_batch_size" /\ err' = err
       ELSE IF call.batch_size.kind \in {"int", "seq"}
       THEN extra_batch_size' = call.batch_size.v /\ pc' = "data_batch_size" /\ err' = err
       ELSE extra_batch_size' = extra_batch_size /\ Raise("AssertionError: Invalid batch size")
    /\ UNCHANGED <<x_size, self_solver, call, data_batch_size, solver, x, condition,
                   data, ret, log, rr>>

\* the assertion on the leading sizes left out
SizesUnchecked(x0, c) == TRUE

\* lines 124-127: the assertion on the two leading sizes
BatchSizesAgree(x0, c) == (x0.present /\ c.present) => x0.n = c.n

\* lines 124-134: the value given to data_batch_size
DataBatchSize(x0, c) ==
    IF x0.present THEN x0.n
    ELSE IF c.present THEN c.n
    ELSE 1

DetermineDataBatchSize ==
    /\ pc = "data_batch_size"
    /\ IF BatchSizesAgree(call.x_0, call.condition)
       THEN /\ data_batch_size' = DataBatchSize(call.x_0, call.condition)
            /\ pc' = "solver" /\ err' = err
       ELSE /\ Raise("AssertionError: The batch size of x_0 and condition must be the same")
            /\ data_batch_size' = data_batch_size
    /\ UNCHANGED <<x_size, self_solver, call, extra_batch_size, solver, x, condition,
                   data, ret, log, rr>>

\* lines 136-142
SelectSolver ==
    /\ pc = "solver"
    /\ IF call.solver_config # "None"
       THEN /\ solver' = call.solver_config
            /\ log' = [log EXCEPT !.get_solver = @ + 1]
            /\ pc' = "initial_state" /\ err' = err
       ELSE IF self_solver # "none"
       THEN solver' = self_solver /\ log' = log /\ pc' = "initial_state" /\ err' = err
       ELSE /\ Raise("AssertionError: solver must be specified in config or solver_config")
            /\ solver' = solver /\ log' = log
    /\ UNCHANGED <<x_size, self_solver, call, extra_batch_size, data_batch_size, x,
                   condition, data, ret, rr>>

\* the validation of x_0 against x_size left out
CheckX0Skipped(xs, x0) == "ok"

\* lines 150-163: "ok", or the message of the assertion that fails
CheckX0(xs, x0) ==
    IF xs.kind \in {"int", "tuple"}
    THEN IF TorchSize(xs) = x0.tail
         THEN "ok"
         ELSE "AssertionError: The shape of x_0 must be the same as the x_size that is specified in the config"
    ELSE "AssertionError: Invalid x_size"

\* the per-sample shapes of what gaussian_generator draws for x_size
GaussianTails(xs) ==
    IF xs.kind = "dict" THEN [i \in 1..Len(DictXSize) |-> TorchSize(DictXSize[i])]
    ELSE <<TorchSize(xs)>>

\* lines 144-166
BuildInitialState ==
    /\ pc = "initial_state"
    /\ LET k == Prod(extra_batch_size)
       IN  IF ~call.x_0.present
           THEN /\ x' = [kind |-> IF x_size.kind = "dict" THEN "tree" ELSE "tensor",
                         tails |-> GaussianTails(x_size),
                         rows |-> GaussianRows(k * data_batch_size)]
                /\ log' = [log EXCEPT !.gaussian = Append(@, k * data_batch_size)]
                /\ pc' = "condition" /\ err' = err
           ELSE IF CheckX0(x_size, call.x_0) = "ok"
           THEN /\ x' = [kind |-> "tensor", tails |-> <<call.x_0.tail>>,
                         rows |-> RepeatInterleave(RowsOf(call.x_0.n), k)]
                /\ log' = log
                /\ pc' = "condition" /\ err' = err
           ELSE Raise(CheckX0(x_size, call.x_0)) /\ x' = x /\ log' = log
    /\ UNCHANGED <<x_size, self_solver, call, extra_batch_size, data_batch_size, solver,
                   condition, data, ret, rr>>

\* lines 168-172
ExpandCondition ==
    /\ pc = "condition"
    /\ condition' = IF call.condition.present
                    THEN RepeatInterleave(RowsOf(call.condition.n), Prod(extra_batch_size))
                    ELSE <<>>
    /\ pc' = "dispatch"
    /\ UNCHANGED <<x_size, self_solver, call, extra_batch_size, data_batch_size, solver,
                   x, data, ret, err, log, rr>>

\* lines 174, 194, 221: the branch taken for a solver
SolverBranch(sv) ==
    IF sv = "ODESolver" THEN "ode"
    ELSE IF sv = "DictTensorODESolver" THEN "dict"
    ELSE "else"

\* lines 179-193: integrate runs under torch.no_grad() unless with_grad
NoGrad(with_grad) == ~with_grad

\* lines 184, 192: adjoint_params=find_parameters(self.model) is passed
AdjointParams(with_grad) == TRUE

\* lines 222-224: what the else branch raises; formatting the message reads
\* self.config.solver.type, and the config has a solver only when self.solver was set
UnsupportedSolver(default) ==
    IF default = "none" THEN "AttributeError: solver"
    ELSE "NotImplementedError: Solver type is not implemented"

\* lines 174-224, up to the call of solver.integrate
DispatchSolver ==
    /\ pc = "dispatch"
    /\ IF SolverBranch(solver) = "ode"
       THEN /\ log' = [log EXCEPT !.integrate =
                         Append(@, [solver |-> solver,
                                    no_grad |-> NoGrad(call.with_grad),
                                    adjoint_params |-> AdjointParams(call.with_grad),
                                    x0 |-> x.rows,
                                    condition |-> condition])]
            /\ pc' = "integrate" /\ err' = err
       ELSE IF SolverBranch(solver) = "dict"
       \* lines 198, 211: self.diffusion_process is read to build the drift argument;
       \* __init__ (lines 38-51) never sets it
       THEN Raise("AttributeError: diffusion_process") /\ log' = log
       ELSE Raise(UnsupportedSolver(self_solver)) /\ log' = log
    /\ UNCHANGED <<x_size, self_solver, call, extra_batch_size, data_batch_size, solver,
                   x, condition, data, ret, rr>>

ResultKinds == {"Tensor", "TensorDict", "TreeTensor", "Other"}

\* solver.integrate returns: one snapshot per element of t_span, in the
\* representation the solver chooses
IntegrateReturns ==
    /\ pc = "integrate"
    /\ \E kind \in ResultKinds :
         data' = [kind |-> kind,
                  fields |->
                    IF kind = "Tensor"
                    THEN <<Trajectory(call.t_span, x.rows, x.tails[1])>>
                    ELSE IF kind = "TreeTensor"
                    THEN [i \in 1..Len(TreeKeys) |->
                            Trajectory(call.t_span, x.rows,
                                       IF x.kind = "tree" THEN x.tails[i] ELSE x.tails[1])]
                    ELSE <<>>]
    /\ pc' = "inverse"
    /\ UNCHANGED <<x_size, self_solver, call, extra_batch_size, data_batch_size, solver,
                   x, condition, ret, err, log, rr>>

\* lines 228-257: the dimensions after -1 in data.reshape
ReshapeDims(ebs, n, xs) ==
    (IF Len(TensorShape(ebs)) = 0 THEN <<Head(ebs)>> ELSE ebs) \o <<n>>
    \o (IF xs.kind = "int" THEN <<xs.n>> ELSE xs.dims)

\* lines 260-273: the axes squeezed, in order
SqueezeAxes(c, ebs) ==
    IF c.batch_size.kind = "None"
    THEN IF ~c.x_0.present /\ ~c.condition.present THEN <<1, 1>> ELSE <<1>>
    ELSE IF ~c.x_0.present /\ ~c.condition.present
         THEN <<1 + Len(TensorShape(ebs))>>
         ELSE <<>>

RECURSIVE SqueezeAllOk(_, _)
SqueezeAllOk(t, axes) ==
    IF axes = <<>> THEN TRUE
    ELSE SqueezeOk(t, Head(axes)) /\ SqueezeAllOk(Squeeze(t, Head(axes)), Tail(axes))

RECURSIVE SqueezeAll(_, _)
SqueezeAll(t, axes) ==
    IF axes = <<>> THEN t ELSE SqueezeAll(Squeeze(t, Head(axes)), Tail(axes))

\* lines 226-273 (and 278-323 for one field): "" and the reshaped tensor, or the error
InverseTensor(t, xs, c, ebs, n) ==
    IF xs.kind \notin {"int", "tuple"}
    THEN [err |-> "AssertionError: Invalid x_size", t |-> t]
    ELSE IF ~ReshapeOk(t, ReshapeDims(ebs, n, xs))
    THEN [err |-> "RuntimeError: shape is invalid for input", t |-> t]
    ELSE IF ~SqueezeAllOk(Reshape(t, ReshapeDims(ebs, n, xs)), SqueezeAxes(c, ebs))
    THEN [err |-> "IndexError: Dimension out of range", t |-> t]
    ELSE [err |-> "",
          t |-> SqueezeAll(Reshape(t, ReshapeDims(ebs, n, xs)), SqueezeAxes(c, ebs))]

\* lines 226-325: [err, data]
InverseCompose(d, xs, c, ebs, n) ==
    IF d.kind = "Tensor"
    THEN LET r == InverseTensor(d.fields[1], xs, c, ebs, n)
         IN  [err |-> r.err, data |-> [kind |-> d.kind, fields |-> <<r.t>>]]
    ELSE IF d.kind = "TensorDict"
    THEN [err |-> "NotImplementedError: Not implemented", data |-> d]
    ELSE IF d.kind = "TreeTensor"
    THEN IF xs.kind # "dict"
         \* line 279: self.x_size[key] with an int or a tuple x_size
         THEN [err |-> "TypeError: x_size[key]", data |-> d]
         ELSE LET r == [i \in 1..Len(d.fields) |->
                          InverseTensor(d.fields[i], DictXSize[i], c, ebs, n)]
                  bad == {i \in 1..Len(d.fields) : r[i].err # ""}
              IN  IF bad # {}
                  THEN [err |-> r[CHOOSE i \in bad : \A j \in bad : i <= j].err, data |-> d]
                  ELSE [err |-> "",
                        data |-> [kind |-> d.kind,
                                  fields |-> [i \in 1..Len(d.fields) |-> r[i].t]]]
    ELSE [err |-> "NotImplementedError: Not implemented", data |-> d]

\* lines 226-326
InverseComposition ==
    /\ pc = "inverse"
    /\ LET r == InverseCompose(data, x_size, call, extra_batch_size, data_batch_size)
       IN  IF r.err = ""
           THEN data' = r.data /\ pc' = "return" /\ err' = err
           ELSE data' = data /\ Raise(r.err)
    /\ UNCHANGED <<x_size, self_solver, call, extra_batch_size, data_batch_size, solver,
                   x, condition, ret, log, rr>>

\* [0] in place of [-1]
FirstIndex == 1 - 1

\* line 73: the index sample applies to what sample_forward_process returns
SampleIndex == 0 - 1

\* line 327 for sample_forward_process; lines 66-73 for sample
Return ==
    /\ pc = "return"
    /\ IF call.entry = "sample_forward_process"
       THEN ret' = data /\ pc' = "done" /\ err' = err
       ELSE IF \A i \in 1..Len(data.fields) : IndexOk(data.fields[i], SampleIndex)
       THEN /\ ret' = [kind |-> data.kind,
                       fields |-> [i \in 1..Len(data.fields) |->
                                     Index(data.fields[i], SampleIndex)]]
            /\ pc' = "done" /\ err' = err
       ELSE ret' = ret /\ Raise("IndexError: index out of range")
    /\ UNCHANGED <<x_size, self_solver, call, extra_batch_size, data_batch_size, solver,
                   x, condition, data, log, rr>>

Next ==
    \/ sample_forward_process
    \/ sample
    \/ NormalizeBatchSize
    \/ DetermineDataBatchSize
    \/ SelectSolver
    \/ BuildInitialState
    \/ ExpandCondition
    \/ DispatchSolver
    \/ IntegrateReturns
    \/ InverseComposition
    \/ Return

Spec == Init /\ [][Next]_vars

\* ------------------------------------------------ MinariDataset.return_range
Min2(a, b) == IF a < b THEN a ELSE b

SeqMin(q) == CHOOSE m \in {q[i] : i \in 1..Len(q)} : \A i \in 1..Len(q) : m <= q[i]
SeqMax(q) == CHOOSE m \in {q[i] : i \in 1..Len(q)} : \A i \in 1..Len(q) : m >= q[i]

Rewards == {0, 1}

\* return_range(dataset, max_episode_steps) is entered: one reward and one terminal per step
InitRR ==
    /\ x_size = IntSize(1)
    /\ self_solver = "none"
    /\ pc = "idle"
    /\ call = NoCall
    /\ extra_batch_size = <<>>
    /\ data_batch_size = 0
    /\ solver = "none"
    /\ x = NoX
    /\ condition = <<>>
    /\ data = NoData
    /\ ret = NoData
    /\ err = ""
    /\ log = NoLog
    /\ \E n \in 0..MaxSteps :
         \E rs \in [1..n -> Rewards], ds \in [1..n -> BOOLEAN], m \in 1..MaxEpisodeSteps :
           rr = [NoRR EXCEPT !.pc = "loop", !.rewards = rs, !.terminals = ds,
                             !.max_episode_steps = m]

\* ep_len > max_episode_steps in place of ==
ClosesEpisodeLate(d, ep_len, max_episode_steps) == d \/ ep_len > max_episode_steps

\* line 146: the test that closes an episode
ClosesEpisode(d, ep_len, max_episode_steps) == d \/ ep_len = max_episode_steps

\* line 151: the lengths list after the loop
FinalLengths(lengths, ep_len) == Append(lengths, ep_len)

\* lines 143-149: one iteration of the loop over zip(rewards, terminals)
ReturnRangeStep ==
    /\ rr.pc = "loop"
    /\ rr.i < Min2(Len(rr.rewards), Len(rr.terminals))
    /\ LET r == rr.rewards[rr.i + 1]
           d == rr.terminals[rr.i + 1]
           ep_ret == rr.ep_ret + r
           ep_len == rr.ep_len + 1
           close == ClosesEpisode(d, ep_len, rr.max_episode_steps)
       IN  rr' = [rr EXCEPT
                    !.i = @ + 1,
                    !.ep_ret = IF close THEN 0 ELSE ep_ret,
                    !.ep_len = IF close THEN 0 ELSE ep_len,
                    !.returns = IF close THEN Append(@, ep_ret) ELSE @,
                    !.lengths = IF close THEN Append(@, ep_len) ELSE @,
                    !.closed = Append(@, close)]
    /\ UNCHANGED flowVars

\* lines 151-153
ReturnRangeFinish ==
    /\ rr.pc = "loop"
    /\ rr.i = Min2(Len(rr.rewards), Len(rr.terminals))
    /\ LET lengths == FinalLengths(rr.lengths, rr.ep_len)
       IN  IF Sum(lengths) # Len(rr.rewards)
           THEN rr' = [rr EXCEPT !.lengths = lengths, !.pc = "error", !.err = "AssertionError"]
           ELSE IF rr.returns = <<>>
           THEN rr' = [rr EXCEPT !.lengths = lengths, !.pc = "error",
                                 !.err = "ValueError: min() arg is an empty sequence"]
           ELSE rr' = [rr EXCEPT !.lengths = lengths, !.pc = "done",
                                 !.result = <<SeqMin(rr.returns), SeqMax(rr.returns)>>]
    /\ UNCHANGED flowVars

NextRR == ReturnRangeStep \/ ReturnRangeFinish

SpecRR == InitRR /\ [][NextRR]_vars

\* ------------------------------------------------------------------ claims
MsgBatchSize == "AssertionError: Invalid batch size"
MsgMismatch == "AssertionError: The batch size of x_0 and condition must be the same"
MsgNoSolver == "AssertionError: solver must be specified in config or solver_config"
MsgX0Shape == "AssertionError: The shape of x_0 must be the same as the x_size that is specified in the config"
MsgXSize == "AssertionError: Invalid x_size"
MsgSolverType == "NotImplementedError: Solver type is not implemented"
MsgNotImplemented == "NotImplementedError: Not implemented"

\* the quantities the claims speak of, read off the arguments of the call
ArgT == call.t_span
ArgB == call.batch_size.v
ArgK == IF call.batch_size.kind = "None" THEN 1 ELSE Prod(call.batch_size.v)
ArgN == IF call.x_0.present THEN call.x_0.n
        ELSE IF call.condition.present THEN call.condition.n ELSE 1
ArgData == call.x_0.present \/ call.condition.present
Returned == pc = "done" /\ call.entry = "sample_forward_process" /\ ret.kind = "Tensor"
PastDispatch ==
    \/ pc \in {"integrate", "inverse", "return", "done"}
    \/ pc = "error" /\ err \notin {MsgBatchSize, MsgMismatch, MsgNoSolver, MsgX0Shape}
                    /\ ~(err = MsgXSize /\ log.integrate = <<>>)

\* C1: with state shape (D,), the trajectory sample_forward_process returns has shape
\* (T, D) without batch_size, x_0 and condition; (T, N, D) without batch_size and with
\* N rows of x_0 or condition; (T, B, D) with batch_size = B alone; (T, B, N, D) with
\* batch_size = B and N rows of data; B = 1, N = 1 and D = 1 included.
C1_RegimeShape ==
    (Returned /\ Len(TorchSize(x_size)) = 1 /\ call.batch_size.kind \in {"None", "int"}) =>
        LET D == TorchSize(x_size)[1]
        IN  ret.fields[1].shape =
              IF call.batch_size.kind = "None"
              THEN IF ArgData THEN <<ArgT, ArgN, D>> ELSE <<ArgT, D>>
              ELSE IF ArgData THEN <<ArgT, ArgB[1], ArgN, D>> ELSE <<ArgT, ArgB[1], D>>

\* a call with batch_size = 1, one row of x_0 and D = 1 returned all four axes
C1_Witness ==
    /\ Returned
    /\ x_size = IntSize(1)
    /\ call.batch_size = [kind |-> "int", v |-> <<1>>]
    /\ call.x_0.present /\ call.x_0.n = 1
    /\ ret.fields[1].shape = <<MaxT, 1, 1, 1>>

\* C2: with batch_size a sequence (B1, ..., Br) and neither x_0 nor condition, the
\* result has shape (T, B1, ..., Br, *state_shape): only the synthesized data axis
\* is squeezed.
C2_SequenceShape ==
    (Returned /\ call.batch_size.kind = "seq" /\ ~ArgData) =>
        ret.fields[1].shape = <<ArgT>> \o ArgB \o TorchSize(x_size)

\* the 0-based position of the data-batch axis in the returned trajectory
DataAxis == IF call.batch_size.kind = "None" THEN 1 ELSE 1 + Len(ArgB)

\* the 0-based index along axis a of the element at 1-based flat position e
AxisIndex(t, a, e) ==
    ((e - 1) \div Prod(SubSeq(t.shape, a + 2, Len(t.shape)))) % t.shape[a + 1]

\* C3: in the returned trajectory, every element whose data-batch index is i was
\* evolved from a copy of x_0[i].
C3_DataIndex ==
    (Returned /\ call.x_0.present) =>
        \A e \in 1..Len(ret.fields[1].data) :
            ret.fields[1].data[e][3] = AxisIndex(ret.fields[1], DataAxis, e)

\* C4: the state batch handed on has k * DataBatchSize rows, drawn from the Gaussian
\* sampler without x_0 and repeat-interleaved from x_0 otherwise; a given condition
\* has k * DataBatchSize rows too, row f a copy of condition[f div k], the data index
\* of row f of the state.
C4_ExpandedBatch ==
    (pc \in {"dispatch", "integrate", "inverse", "return", "done"}) =>
        /\ Len(x.rows) = ArgK * ArgN
        /\ call.x_0.present =>
             /\ \A f \in 1..Len(x.rows) : x.rows[f] = (f - 1) \div ArgK
             /\ log.gaussian = <<>>
        /\ ~call.x_0.present =>
             /\ \A f \in 1..Len(x.rows) : x.rows[f] = Noise
             /\ log.gaussian = <<ArgK * ArgN>>
        /\ call.condition.present =>
             /\ Len(condition) = ArgK * ArgN
             /\ \A f \in 1..Len(condition) : condition[f] = (f - 1) \div ArgK
        /\ \A c \in 1..Len(log.integrate) :
             log.integrate[c].x0 = x.rows /\ log.integrate[c].condition = condition

\* x_0 and a condition of two rows each, replicated at least twice, reached integrate
C4_Witness ==
    /\ pc = "integrate"
    /\ call.x_0.present /\ call.condition.present
    /\ ArgN = 2 /\ ArgK >= 2
    /\ Len(log.integrate[1].condition) = 2 * ArgK

Mismatch ==
    call.x_0.present /\ call.condition.present /\ call.x_0.n # call.condition.n

\* C5: a call with x_0 and condition of different leading sizes ends in an error
\* before any solver is constructed, any initial state drawn or expanded and any
\* integrate call made, and returns nothing; with equal sizes this check does not fail.
C5_MismatchFails ==
    /\ Mismatch =>
         /\ pc \in {"batch_size", "data_batch_size", "error"}
         /\ pc = "error" => err \in {MsgBatchSize, MsgMismatch}
         /\ log = NoLog /\ x = NoX /\ condition = <<>> /\ data = NoData /\ ret = NoData
    /\ ~Mismatch => err # MsgMismatch

\* the check rejected x_0 and condition of different sizes
C5_Witness == Mismatch /\ pc = "error" /\ err = MsgMismatch

\* C6: sample returns the element at the last time index of what
\* sample_forward_process returns for the same arguments (data), and fails only
\* where sample_forward_process fails.
C6_SampleIsLast ==
    (call.entry = "sample") =>
        /\ pc = "done" =>
             /\ ret.kind = data.kind /\ Len(ret.fields) = Len(data.fields)
             /\ \A i \in 1..Len(data.fields) :
                  LET T == data.fields[i].shape[1]
                      blk == Len(data.fields[i].data) \div T
                  IN  /\ ret.fields[i].shape = Tail(data.fields[i].shape)
                      /\ Len(ret.fields[i].data) = blk
                      /\ \A e \in 1..blk :
                           /\ ret.fields[i].data[e] = data.fields[i].data[(T - 1) * blk + e]
                           /\ ret.fields[i].data[e][1] = ArgT - 1
        /\ pc = "error" => err # "IndexError: index out of range"

\* sample returned from a trajectory of more than one snapshot
C6_Witness ==
    /\ call.entry = "sample" /\ pc = "done" /\ ArgT = MaxT /\ ret.kind = "Tensor"
    /\ call.x_0.present /\ ArgK >= 2

\* C7 as stated: no call invokes integrate and afterwards ends in an error.
C7_NoErrorAfterIntegrate == ~(pc = "error" /\ log.integrate # <<>>)

\* C7 as amended: the errors for the batch-size type, the x_0/condition mismatch, the
\* missing solver, the x_0 shape, the x_size kind when x_0 is given and the
\* unsupported solver come before integrate; an error after integrate is one decided
\* by its result: an unsupported representation, the x_size kind met while reshaping
\* a Gaussian-started run, or a tree result indexed by a non-mapping x_size.
C7_EagerErrors ==
    (pc = "error") =>
        IF log.integrate = <<>>
        THEN err \in {MsgBatchSize, MsgMismatch, MsgNoSolver, MsgX0Shape, MsgXSize,
                      MsgSolverType, "AttributeError: solver",
                      "AttributeError: diffusion_process"}
        ELSE /\ err \in {MsgNotImplemented, MsgXSize, "TypeError: x_size[key]"}
             /\ err = MsgXSize => ~call.x_0.present
             /\ Len(log.integrate) = 1

\* an unsupported result representation was reported after integrate had run
C7_Witness ==
    pc = "error" /\ err = MsgNotImplemented /\ Len(log.integrate) = 1 /\ data.kind = "TensorDict"

\* C8: a selected solver of neither family makes the call fail at the dispatch with
\* the 'solver type not implemented' outcome and without an integrate call, also
\* when the engine has no default solver and the solver comes from solver_config.
C8_UnsupportedSolver ==
    (PastDispatch /\ SolverBranch(solver) = "else") =>
        pc = "error" /\ err = MsgSolverType /\ log.integrate = <<>>

\* C9: for both solver families and both values of with_grad the call makes exactly
\* one integrate call, under no_grad exactly when with_grad is false, and with the
\* model's parameters supplied when with_grad is true.
C9_OneIntegrate ==
    (PastDispatch /\ SolverBranch(solver) \in {"ode", "dict"}) =>
        /\ Len(log.integrate) = 1
        /\ log.integrate[1].no_grad = ~call.with_grad
        /\ call.with_grad => log.integrate[1].adjoint_params

\* the number of steps of the running episode at 1-based step j, from the closures
\* recorded before it
RunLength(j) ==
    LET before == {m \in 1..(j - 1) : rr.closed[m]}
    IN  IF before = {} THEN j
        ELSE j - (CHOOSE m \in before : \A o \in before : o <= m)

\* C10: return_range closes an episode exactly at the steps whose terminal flag is
\* set or at which the running episode reaches max_episode_steps, and after the
\* loop the recorded lengths with the last, incomplete one sum to the number of
\* rewards, so the assertion does not fail.
C10_EpisodeLengths ==
    /\ \A j \in 1..rr.i :
         rr.closed[j] <=> (rr.terminals[j] \/ RunLength(j) = rr.max_episode_steps)
    /\ rr.pc = "loop" => Sum(rr.lengths) + rr.ep_len = rr.i
    /\ rr.pc \in {"done", "error"} =>
         /\ Sum(rr.lengths) = Len(rr.rewards)
         /\ rr.err # "AssertionError"

\* a run that closed one episode on its length and one on a terminal flag and
\* ended inside a third
C10_Witness ==
    /\ rr.pc = "done"
    /\ Len(rr.lengths) = 3
    /\ rr.lengths[3] > 0
    /\ \E j \in 1..rr.i : rr.closed[j] /\ ~rr.terminals[j]
    /\ \E j \in 1..rr.i : rr.closed[j] /\ rr.terminals[j] /\ RunLength(j) < rr.max_episode_steps

\* x_0's per-sample shape equals the configured state shape: the one shape of an
\* int or tuple x_size, or the shape of every field of a mapping x_size
X0Matches ==
    IF x_size.kind = "dict"
    THEN call.x_0.fields = [i \in 1..Len(DictXSize) |-> TorchSize(DictXSize[i])]
    ELSE call.x_0.fields = <<>> /\ call.x_0.tail = TorchSize(x_size)

\* the call ended in one of the errors of the validation of x_0 (lines 150-163)
X0Rejected == pc = "error" /\ log.integrate = <<>> /\ err \in {MsgX0Shape, MsgXSize}

\* C11: a given x_0 is accepted if and only if its per-sample shape equals the
\* configured state shape, for x_size an int, a tuple or list, or a mapping checked
\* field by field: a matching x_0 is never rejected, and with a mismatching x_0 the
\* call never gets past the validation and never reaches integrate.
C11_X0Validation ==
    call.x_0.present =>
        /\ X0Matches => ~X0Rejected
        /\ ~X0Matches =>
             /\ pc \notin {"condition", "dispatch", "integrate", "inverse", "return", "done"}
             /\ log.integrate = <<>>

====
